---- MODULE Spec2Model ----
(***************************************************************************)
(* Model of animals_web_generator.py: the case-insensitive getter get_ci,   *)
(* iter_animals, serialize_animal, build_cards and the placeholder          *)
(* substitution of main.                                                    *)
(*                                                                          *)
(* Representation.  A Python str is a sequence of one-character strings.    *)
(* A JSON value is a tagged record: [t |-> "none"], [t |-> "str", v |-> s], *)
(* [t |-> "list", v |-> <<values>>], [t |-> "dict", v |-> <<entries>>]      *)
(* where an entry is [k |-> key, v |-> value]; a dict keeps its insertion   *)
(* order and its keys are pairwise distinct.  Rendered HTML is a sequence   *)
(* of tokens whose concatenation is the Python string: a token is one       *)
(* character of a value, one entity produced by html.escape, or one         *)
(* literal of the f-strings of serialize_animal.                            *)
(***************************************************************************)
EXTENDS Integers, Sequences, FiniteSets, TLC

VARIABLES pc, data, template_html, animals, cards_html, final_html,
          animal, name, diet, locations, first_location, typ,
          title_html, details, item

vars == <<pc, data, template_html, animals, cards_html, final_html,
          animal, name, diet, locations, first_location, typ,
          title_html, details, item>>

mainVars == <<data, template_html, animals, cards_html, final_html>>

localVars == <<animal, name, diet, locations, first_location, typ,
               title_html, details, item>>

(* ---------------- bounds ---------------- *)
MaxKeys == 2

MaxAnimals == 3

MaxSegs == 2

(* ---------------- characters and strings ---------------- *)
LowerAlpha == <<"a","b","c","d","e","f","g","h","i","j","k","l","m",
                "n","o","p","q","r","s","t","u","v","w","x","y","z">>

UpperAlpha == <<"A","B","C","D","E","F","G","H","I","J","K","L","M",
                "N","O","P","Q","R","S","T","U","V","W","X","Y","Z">>

UpperSet == {UpperAlpha[i] : i \in 1..26}

LowerSet == {LowerAlpha[i] : i \in 1..26}

LowerOf == [c \in UpperSet |-> LowerAlpha[CHOOSE i \in 1..26 : UpperAlpha[i] = c]]

UpperOf == [c \in LowerSet |-> UpperAlpha[CHOOSE i \in 1..26 : LowerAlpha[i] = c]]

LowerChar(c) == IF c \in UpperSet THEN LowerOf[c] ELSE c

UpperChar(c) == IF c \in LowerSet THEN UpperOf[c] ELSE c

lower(s) == [i \in 1..Len(s) |-> LowerChar(s[i])]

upper(s) == [i \in 1..Len(s) |-> UpperChar(s[i])]

capitalize(s) ==
  [i \in 1..Len(s) |-> IF i = 1 THEN UpperChar(s[i]) ELSE LowerChar(s[i])]

Whitespace == {" ", "\t", "\n"}

RECURSIVE lstrip(_)
lstrip(s) ==
  IF s # <<>> /\ s[1] \in Whitespace THEN lstrip(Tail(s)) ELSE s

RECURSIVE rstrip(_)
rstrip(s) ==
  IF s # <<>> /\ s[Len(s)] \in Whitespace
  THEN rstrip(SubSeq(s, 1, Len(s) - 1))
  ELSE s

strip(s) == rstrip(lstrip(s))

(* sep.join(parts) on sequences of token sequences *)
RECURSIVE join(_, _)
join(sep, parts) ==
  IF parts = <<>> THEN <<>>
  ELSE IF Len(parts) = 1 THEN parts[1]
  ELSE parts[1] \o sep \o join(sep, Tail(parts))

(* ---------------- values ---------------- *)
NoneV == [t |-> "none"]

StrV(s) == [t |-> "str", v |-> s]

ListV(l) == [t |-> "list", v |-> l]

DictV(d) == [t |-> "dict", v |-> d]

IsNone(x) == x.t = "none"

IsStr(x) == x.t = "str"

IsList(x) == x.t = "list"

IsDict(x) == x.t = "dict"

(* Python truth value of a JSON value *)
Truthy(x) == IF IsNone(x) THEN FALSE ELSE Len(x.v) > 0

(* repr() of a str: single quotes unless it holds ' and no ", then double *)
(* quotes; inside single quotes ' is written \'.                          *)
ReprStr(s) ==
  LET hasS == \E i \in 1..Len(s) : s[i] = "'"
      hasD == \E i \in 1..Len(s) : s[i] = "\""
      q == IF hasS /\ ~hasD THEN "\"" ELSE "'"
      esc(c) == IF c = q \/ c = "\\" THEN <<"\\", c>> ELSE <<c>>
      body == join(<<>>, [i \in 1..Len(s) |-> esc(s[i])])
  IN <<q>> \o body \o <<q>>

RECURSIVE Repr(_)
Repr(x) ==
  IF IsNone(x) THEN <<"N","o","n","e">>
  ELSE IF IsStr(x) THEN ReprStr(x.v)
  ELSE IF IsList(x)
    THEN <<"[">> \o join(<<",", " ">>, [i \in 1..Len(x.v) |-> Repr(x.v[i])])
         \o <<"]">>
  ELSE <<"{">>
       \o join(<<",", " ">>,
               [i \in 1..Len(x.v) |->
                  ReprStr(x.v[i].k) \o <<":", " ">> \o Repr(x.v[i].v)])
       \o <<"}">>

(* str(x) *)
str(x) == IF IsStr(x) THEN x.v ELSE Repr(x)

(* ---------------- html.escape ---------------- *)
Special == {"&", "<", ">", "\"", "'"}

escape_char_raw(c) == c

escape_char(c) ==
  IF c = "&" THEN "&amp;"
  ELSE IF c = "<" THEN "&lt;"
  ELSE IF c = ">" THEN "&gt;"
  ELSE IF c = "\"" THEN "&quot;"
  ELSE IF c = "'" THEN "&#x27;"
  ELSE c

escape(s) == [i \in 1..Len(s) |-> escape_char(s[i])]

(* ---------------- dict access ---------------- *)
HasKey(d, k) == \E i \in 1..Len(d) : d[i].k = k

Lookup(d, k) == d[CHOOSE i \in 1..Len(d) : d[i].k = k].v

(* lower_map.get(lk): the value of the last entry whose lowered key is lk *)
LowerGet(d, lk) ==
  LET hits == {i \in 1..Len(d) : lower(d[i].k) = lk}
  IN IF hits = {} THEN NoneV
     ELSE d[CHOOSE i \in hits : \A j \in hits : j <= i].v

RECURSIVE FirstExact(_, _)
FirstExact(d, keys) ==
  IF keys = <<>> THEN 0
  ELSE IF HasKey(d, keys[1]) THEN 1
  ELSE LET r == FirstExact(d, Tail(keys)) IN IF r = 0 THEN 0 ELSE r + 1

RECURSIVE FirstLower(_, _)
FirstLower(d, keys) ==
  IF keys = <<>> THEN NoneV
  ELSE LET v == LowerGet(d, lower(keys[1]))
       IN IF ~IsNone(v) THEN v ELSE FirstLower(d, Tail(keys))

get_ci_exact_only(d, keys) ==
  LET e == FirstExact(d, keys)
  IN IF e # 0 THEN Lookup(d, keys[e]) ELSE NoneV

get_ci_skip_none(d, keys) ==
  LET live == SelectSeq(keys, LAMBDA k : HasKey(d, k) /\ ~IsNone(Lookup(d, k)))
  IN IF live # <<>> THEN Lookup(d, live[1]) ELSE FirstLower(d, keys)

get_ci(d, keys) ==
  LET e == FirstExact(d, keys)
  IN IF e # 0 THEN Lookup(d, keys[e]) ELSE FirstLower(d, keys)


(* ---------------- key names and the placeholder ---------------- *)
K_name == <<"n","a","m","e">>

K_diet == <<"d","i","e","t">>

K_locations == <<"l","o","c","a","t","i","o","n","s">>

K_location == <<"l","o","c","a","t","i","o","n">>

K_type == <<"t","y","p","e">>

K_characteristics == <<"c","h","a","r","a","c","t","e","r","i","s","t","i","c","s">>

K_animals == <<"a","n","i","m","a","l","s">>

PLACEHOLDER == <<"_","_","R","E","P","L","A","C","E","_","A","N","I","M","A","L","S","_","I","N","F","O","_","_">>

(* ---------------- literals of serialize_animal ---------------- *)
DivOpen == "  <div class=\"card__title\">"

DivClose == "</div>\n"

DietLabel == "<strong>Diet:</strong> "

LocLabel == "<strong>Location:</strong> "

TypeLabel == "<strong>Type:</strong> "

Br == "<br/>"

LiOpen == "  <li class=\"cards__item\">\n"

POpen == "  <p class=\"card__text\">\n"

PClose == "  </p>\n"

LiClose == "  </li>\n"

(* ---------------- serialize_animal ---------------- *)
NameOf(a) == get_ci(a, <<K_name>>)

TitleHtml_upper(nm) ==
  IF Truthy(nm) THEN <<DivOpen>> \o escape(upper(str(nm))) \o <<DivClose>>
  ELSE <<>>

TitleHtml(nm) ==
  IF Truthy(nm) THEN <<DivOpen>> \o escape(str(nm)) \o <<DivClose>>
  ELSE <<>>

(* a field read at the top level, else inside "characteristics" *)
NestedField_top_only(a, key) == get_ci(a, <<key>>)

NestedField(a, key) ==
  LET top == get_ci(a, <<key>>)
      ch == get_ci(a, <<K_characteristics>>)
  IN IF ~Truthy(top) /\ IsDict(ch) THEN get_ci(ch.v, <<key>>) ELSE top

DietOf(a) == NestedField(a, K_diet)

TypOf(a) == NestedField(a, K_type)

LocationsOf(a) == get_ci(a, <<K_locations, K_location>>)

FirstLocation_last(loc) ==
  IF IsList(loc) /\ Len(loc.v) > 0 THEN loc.v[Len(loc.v)]
  ELSE IF IsStr(loc) /\ strip(loc.v) # <<>> THEN StrV(strip(loc.v))
  ELSE NoneV

FirstLocation(loc) ==
  IF IsList(loc) /\ Len(loc.v) > 0 THEN loc.v[1]
  ELSE IF IsStr(loc) /\ strip(loc.v) # <<>> THEN StrV(strip(loc.v))
  ELSE NoneV

Fact(label, x) == <<label>> \o escape(str(x)) \o <<Br>>

Details(d, fl, t) ==
  (IF Truthy(d) THEN << Fact(DietLabel, d) >> ELSE <<>>)
  \o (IF Truthy(fl) THEN << Fact(LocLabel, fl) >> ELSE <<>>)
  \o (IF Truthy(t) THEN << Fact(TypeLabel, t) >> ELSE <<>>)

BuildItem_always_wrap(title, det) ==
  IF title = <<>> /\ det = <<>> THEN <<>>
  ELSE <<LiOpen>> \o title
       \o <<POpen, "    ">> \o join(<<"\n    ">>, det) \o <<"\n", PClose>>
       \o <<LiClose>>

BuildItem(title, det) ==
  IF title = <<>> /\ det = <<>> THEN <<>>
  ELSE <<LiOpen>> \o title
       \o (IF det # <<>>
           THEN <<POpen, "    ">> \o join(<<"\n    ">>, det) \o <<"\n", PClose>>
           ELSE <<>>)
       \o <<LiClose>>

serialize_animal(a) ==
  BuildItem(TitleHtml(NameOf(a)),
            Details(DietOf(a), FirstLocation(LocationsOf(a)), TypOf(a)))


(* ---------------- inputs of serialize_animal ---------------- *)
V_empty == StrV(<<>>)

V_blank == StrV(<<" ">>)

V_tag == StrV(<<"<", "f", ">">>)

V_pad == StrV(<<" ", "o", "'", " ">>)

V_list == ListV(<<StrV(<<"b", "&">>), StrV(<<"c", "\"">>)>>)

V_elist == ListV(<<>>)

D_empty == DictV(<<>>)

D_diet == DictV(<<[k |-> K_diet, v |-> V_tag]>>)

D_both == DictV(<<[k |-> capitalize(K_diet), v |-> V_pad],
                  [k |-> K_type, v |-> V_list]>>)

D_dup == DictV(<<[k |-> K_diet, v |-> V_empty],
                 [k |-> upper(K_diet), v |-> V_tag]>>)

NameValues == {NoneV, V_blank, V_tag, V_list, D_diet}

DietValues == {NoneV, V_empty, V_blank, V_pad, V_list}

LocationsValues == {NoneV, V_empty, V_blank, V_pad, V_list, V_elist}

LocationValues == {NoneV, V_tag, V_pad, V_list}

TypeValues == {NoneV, V_blank, V_tag}

NestValues == {NoneV, D_diet, D_both, D_dup}

EntriesOf(key, vals) == {[k |-> key, v |-> val] : val \in vals}

Entries ==
  EntriesOf(K_name, NameValues) \cup EntriesOf(upper(K_name), NameValues)
  \cup EntriesOf(K_diet, DietValues)
  \cup EntriesOf(K_locations, LocationsValues)
  \cup EntriesOf(K_location, LocationValues)
  \cup EntriesOf(K_type, TypeValues)
  \cup EntriesOf(K_characteristics, NestValues)
  \cup EntriesOf(upper(K_characteristics), NestValues)

RECURSIVE DictsOfLen(_)
DictsOfLen(n) ==
  IF n = 0 THEN {<<>>}
  ELSE {Append(x[1], x[2]) :
          x \in {y \in DictsOfLen(n - 1) \X Entries : ~HasKey(y[1], y[2].k)}}

RecordPool == UNION {DictsOfLen(n) : n \in 0..MaxKeys}

(* ---------------- a call of serialize_animal ---------------- *)
Blank == <<>>

InitSerialize ==
  /\ pc = "call"
  /\ animal \in {DictV(d) : d \in RecordPool}
  /\ name = NoneV /\ diet = NoneV /\ locations = NoneV
  /\ first_location = NoneV /\ typ = NoneV
  /\ title_html = Blank /\ details = Blank /\ item = Blank
  /\ data = NoneV /\ template_html = Blank /\ animals = Blank
  /\ cards_html = Blank /\ final_html = Blank

SerializeAnimal ==
  /\ pc = "call"
  /\ name' = NameOf(animal.v)
  /\ title_html' = TitleHtml(name')
  /\ diet' = DietOf(animal.v)
  /\ locations' = LocationsOf(animal.v)
  /\ first_location' = FirstLocation(locations')
  /\ typ' = TypOf(animal.v)
  /\ details' = Details(diet', first_location', typ')
  /\ item' = BuildItem(title_html', details')
  /\ pc' = "return"
  /\ UNCHANGED <<animal, data, template_html, animals, cards_html, final_html>>

NextSerialize == SerializeAnimal

SpecSerialize == InitSerialize /\ [][NextSerialize]_vars


(* ---------------- iter_animals, build_cards, str.replace ---------------- *)
OnlyDicts(xs) == SelectSeq(xs, IsDict)

iter_animals(d) ==
  IF IsList(d) THEN OnlyDicts(d.v)
  ELSE IF IsDict(d) /\ HasKey(d.v, K_animals) /\ IsList(Lookup(d.v, K_animals))
    THEN OnlyDicts(Lookup(d.v, K_animals).v)
  ELSE <<>>

RECURSIVE build_cards_reversed(_)
build_cards_reversed(as) ==
  IF as = <<>> THEN <<>>
  ELSE build_cards_reversed(Tail(as))
       \o (IF IsDict(as[1]) THEN serialize_animal(as[1].v) ELSE <<>>)

RECURSIVE build_cards(_)
build_cards(as) ==
  IF as = <<>> THEN <<>>
  ELSE (IF IsDict(as[1]) THEN serialize_animal(as[1].v) ELSE <<>>)
       \o build_cards(Tail(as))

StartsWith(s, old) == Len(s) >= Len(old) /\ SubSeq(s, 1, Len(old)) = old

(* s.replace(old, new) with count = 1 *)
RECURSIVE replace_first(_, _, _)
replace_first(s, old, new) ==
  IF Len(s) < Len(old) THEN s
  ELSE IF StartsWith(s, old) THEN new \o SubSeq(s, Len(old) + 1, Len(s))
  ELSE <<s[1]>> \o replace_first(Tail(s), old, new)

(* s.replace(old, new) for a non-empty old: a left-to-right scan that     *)
(* replaces every occurrence and resumes after the replaced occurrence.   *)
RECURSIVE replace(_, _, _)
replace(s, old, new) ==
  IF Len(s) < Len(old) THEN s
  ELSE IF StartsWith(s, old)
    THEN new \o replace(SubSeq(s, Len(old) + 1, Len(s)), old, new)
  ELSE <<s[1]>> \o replace(Tail(s), old, new)

(* ---------------- inputs of main ---------------- *)
R_fox == DictV(<<[k |-> capitalize(K_name), v |-> StrV(<<"F", "o", "x">>)],
                 [k |-> capitalize(K_diet), v |-> StrV(<<"O", "m", "n", "i", "v", "o", "r", "e">>)],
                 [k |-> K_locations, v |-> ListV(<<StrV(<<"F", "o", "r", "e", "s", "t">>)>>)]>>)

R_cat == DictV(<<[k |-> K_name, v |-> V_tag],
                 [k |-> K_characteristics, v |-> D_diet]>>)

ElemPool == {R_fox, R_cat, D_empty, V_tag, NoneV}

RECURSIVE SeqsOfLen(_, _)
SeqsOfLen(S, n) ==
  IF n = 0 THEN {<<>>}
  ELSE {Append(x[1], x[2]) : x \in SeqsOfLen(S, n - 1) \X S}

SeqsUpTo(S, n) == UNION {SeqsOfLen(S, m) : m \in 0..n}

DataPool ==
  {ListV(xs) : xs \in SeqsUpTo(ElemPool, MaxAnimals)}
  \cup {DictV(<<[k |-> K_animals, v |-> ListV(xs)]>>) :
          xs \in SeqsUpTo(ElemPool, MaxAnimals)}
  \cup {DictV(<<[k |-> upper(K_animals), v |-> ListV(<<R_fox>>)]>>),
        DictV(<<[k |-> K_animals, v |-> R_fox]>>), V_tag, NoneV}

Pieces == {PLACEHOLDER, SubSeq(PLACEHOLDER, 3, Len(PLACEHOLDER)),
           <<"_">>, <<"<", "u", "l", ">">>}

TemplatePool == {join(<<>>, ps) : ps \in SeqsUpTo(Pieces, MaxSegs)}

(* ---------------- main ---------------- *)
Init ==
  /\ pc = "main"
  /\ template_html \in TemplatePool
  /\ data \in DataPool
  /\ animals = Blank /\ cards_html = Blank /\ final_html = Blank
  /\ animal = NoneV /\ name = NoneV /\ diet = NoneV /\ locations = NoneV
  /\ first_location = NoneV /\ typ = NoneV
  /\ title_html = Blank /\ details = Blank /\ item = Blank

IterAnimals ==
  /\ pc = "main"
  /\ animals' = iter_animals(data)
  /\ pc' = "iter"
  /\ UNCHANGED <<data, template_html, cards_html, final_html>>
  /\ UNCHANGED localVars

BuildCards ==
  /\ pc = "iter"
  /\ cards_html' = build_cards(animals)
  /\ pc' = "cards"
  /\ UNCHANGED <<data, template_html, animals, final_html>>
  /\ UNCHANGED localVars

ReplacePlaceholder ==
  /\ pc = "cards"
  /\ final_html' = replace(template_html, PLACEHOLDER, cards_html)
  /\ pc' = "done"
  /\ UNCHANGED <<data, template_html, animals, cards_html>>
  /\ UNCHANGED localVars

Next == IterAnimals \/ BuildCards \/ ReplacePlaceholder

Spec == Init /\ [][Next]_vars


(* ======================= properties ======================= *)
Returned == pc = "return"

HasToken(ts, tok) == \E i \in 1..Len(ts) : ts[i] = tok

HasFact(f) == \E i \in 1..Len(details) : details[i] = f

FactsOf(label) == SelectSeq(details, LAMBDA f : f[1] = label)

LabelOf(key) == IF key = K_diet THEN DietLabel ELSE TypeLabel

(* keys of d, by position, whose lowered form is lk *)
KeysLike(d, lk) == {i \in 1..Len(d) : lower(d[i].k) = lk}

(* d with the key of entry i renamed to k2 *)
ReKey(d, i, k2) ==
  [j \in 1..Len(d) |-> IF j = i THEN [k |-> k2, v |-> d[j].v] ELSE d[j]]

(* d without entry i *)
RemoveEntry(d, i) == SubSeq(d, 1, i - 1) \o SubSeq(d, i + 1, Len(d))

(* the elements of a dataset: a list, or the list under the key "animals" *)
DatasetElems(d) ==
  IF IsList(d) THEN d.v
  ELSE IF IsDict(d) /\ HasKey(d.v, K_animals) /\ IsList(Lookup(d.v, K_animals))
    THEN Lookup(d.v, K_animals).v
  ELSE <<>>

RECURSIVE FragOffset(_, _)
FragOffset(recs, n) ==
  IF n = 0 THEN 0
  ELSE FragOffset(recs, n - 1) + Len(serialize_animal(recs[n].v))

(* C1: the output of build_cards is the fragments of exactly the mapping   *)
(* elements of the dataset, laid end to end in dataset order: fragment k   *)
(* occupies the positions right after fragments 1..k-1 and nothing else    *)
(* is in the output.                                                       *)
C1_CardsAreFragmentsInOrder ==
  pc \in {"cards", "done"} =>
    LET recs == SelectSeq(DatasetElems(data), IsDict)
        n == Len(recs)
    IN /\ Len(cards_html) = FragOffset(recs, n)
       /\ \A m \in 1..n :
            SubSeq(cards_html, FragOffset(recs, m - 1) + 1, FragOffset(recs, m))
              = serialize_animal(recs[m].v)

C1_Witness ==
  /\ pc = "cards"
  /\ IsList(data) /\ Len(data.v) = 3
  /\ IsDict(data.v[1]) /\ ~IsDict(data.v[2]) /\ IsDict(data.v[3])
  /\ serialize_animal(data.v[1].v) # <<>>
  /\ serialize_animal(data.v[3].v) # <<>>
  /\ serialize_animal(data.v[1].v) # serialize_animal(data.v[3].v)
  /\ cards_html # <<>>

(* C2: no token of a fragment is a raw &, <, >, " or ': every character   *)
(* of a value reaches the fragment through html.escape; the name <f>      *)
(* appears as &lt;f&gt;.                                                   *)
C2_ValuesAreEscaped ==
  Returned =>
    /\ \A i \in 1..Len(item) : item[i] \notin Special
    /\ name = V_tag => title_html = <<DivOpen, "&lt;", "f", "&gt;", DivClose>>

C2_Witness ==
  /\ Returned
  /\ name = V_tag /\ diet = V_list
  /\ HasToken(item, "&lt;") /\ HasToken(item, "&amp;")
  /\ HasToken(item, "&#x27;") /\ HasToken(item, "&quot;")

DisplayedKeys == {K_name, K_diet, K_locations, K_location, K_type}

(* C3: a displayed string field that holds only whitespace behaves as if   *)
(* the field were removed from the record.                                 *)
C3_BlankFieldIsAbsent ==
  Returned =>
    \A i \in 1..Len(animal.v) :
      LET e == animal.v[i]
      IN (/\ lower(e.k) \in DisplayedKeys
          /\ IsStr(e.v) /\ e.v.v # <<>> /\ strip(e.v.v) = <<>>)
         => item = serialize_animal(RemoveEntry(animal.v, i))

NonBlank(x) == ~IsNone(x) /\ ~(IsStr(x) /\ strip(x.v) = <<>>)

(* C4 as stated: no top-level key is "diet" in any letter case and some    *)
(* key that is "characteristics" in some letter case holds a mapping with  *)
(* a non-blank diet value v: a Diet fact with value v is emitted (and the  *)
(* same for type).                                                         *)
C4_NestedFallbackAnyKey ==
  Returned =>
    \A key \in {K_diet, K_type} :
      KeysLike(animal.v, key) = {} =>
        \A i \in KeysLike(animal.v, K_characteristics) :
          IsDict(animal.v[i].v) =>
            \A j \in KeysLike(animal.v[i].v.v, key) :
              LET x == animal.v[i].v.v[j].v
              IN NonBlank(x) => HasFact(Fact(LabelOf(key), x))

(* C4 amended: as above, when the record has exactly one key that is       *)
(* "characteristics" after lower-casing, its mapping has exactly one key   *)
(* that is "diet" (or "type") after lower-casing, and v is non-blank and   *)
(* non-empty: exactly one such fact is emitted and its value is v.         *)
C4_NestedFallback ==
  Returned =>
    \A key \in {K_diet, K_type} :
      (/\ KeysLike(animal.v, key) = {}
       /\ Cardinality(KeysLike(animal.v, K_characteristics)) = 1) =>
        \A i \in KeysLike(animal.v, K_characteristics) :
          (/\ IsDict(animal.v[i].v)
           /\ Cardinality(KeysLike(animal.v[i].v.v, key)) = 1) =>
            \A j \in KeysLike(animal.v[i].v.v, key) :
              LET x == animal.v[i].v.v[j].v
              IN (NonBlank(x) /\ Truthy(x))
                 => FactsOf(LabelOf(key)) = << Fact(LabelOf(key), x) >>

C4_Witness ==
  /\ Returned
  /\ KeysLike(animal.v, K_diet) = {}
  /\ \E i \in 1..Len(animal.v) :
       /\ animal.v[i].k = upper(K_characteristics)
       /\ animal.v[i].v = D_both
  /\ Len(animal.v) = 1
  /\ diet = V_pad /\ typ = V_list
  /\ Len(details) = 2

RecognizedKeys == DisplayedKeys \cup {K_characteristics}

AliasLists == {<<K_name>>, <<K_diet>>, <<K_locations, K_location>>,
               <<K_type>>, <<K_characteristics>>}

CaseVariants(k) == {lower(k), upper(k), capitalize(k)}

SameResolution(d1, d2) ==
  /\ \A al \in AliasLists : get_ci(d1, al) = get_ci(d2, al)
  /\ serialize_animal(d1) = serialize_animal(d2)

(* C5 as stated: changing the letter case of one recognized key, no other  *)
(* key being equal to it after lower-casing, changes neither what get_ci   *)
(* returns nor the fragment.                                               *)
C5_CaseChangeAnyKey ==
  Returned =>
    \A i \in 1..Len(animal.v) :
      LET k == animal.v[i].k
      IN (/\ lower(k) \in RecognizedKeys
          /\ KeysLike(animal.v, lower(k)) = {i})
         => \A k2 \in CaseVariants(k) :
              SameResolution(animal.v, ReKey(animal.v, i, k2))

(* C5 amended: as above, and when the key is "locations" or "location"     *)
(* the record has no key that is the other of the two after lower-casing.  *)
C5_CaseChange ==
  Returned =>
    \A i \in 1..Len(animal.v) :
      LET k == animal.v[i].k
      IN (/\ lower(k) \in RecognizedKeys
          /\ KeysLike(animal.v, lower(k)) = {i}
          /\ lower(k) \in {K_locations, K_location}
               => KeysLike(animal.v, K_locations)
                    \cup KeysLike(animal.v, K_location) = {i})
         => \A k2 \in CaseVariants(k) :
              SameResolution(animal.v, ReKey(animal.v, i, k2))

C5_Witness ==
  /\ Returned
  /\ Len(animal.v) = 2
  /\ animal.v[1].k = upper(K_name) /\ animal.v[1].v = V_tag
  /\ animal.v[2].k = K_locations /\ animal.v[2].v = V_list
  /\ name = V_tag
  /\ serialize_animal(ReKey(animal.v, 1, K_name)) = item
  /\ item # <<>>


CountToken(ts, tok) == Cardinality({i \in 1..Len(ts) : ts[i] = tok})

(* C6: the fragment is empty exactly when neither a title nor a fact was   *)
(* resolved; otherwise it is one <li> container, opened first and closed   *)
(* last, that holds the title element exactly when a name was resolved     *)
(* and the <p> wrapper exactly when there is at least one fact.            *)
C6_ContainerShape ==
  Returned =>
    /\ item = <<>> <=> (~Truthy(name) /\ details = <<>>)
    /\ item # <<>> =>
         /\ item[1] = LiOpen /\ item[Len(item)] = LiClose
         /\ CountToken(item, LiOpen) = 1 /\ CountToken(item, LiClose) = 1
         /\ CountToken(item, DivOpen) = (IF Truthy(name) THEN 1 ELSE 0)
         /\ CountToken(item, POpen) = (IF details # <<>> THEN 1 ELSE 0)
         /\ CountToken(item, PClose) = CountToken(item, POpen)
         /\ CountToken(item, Br) = Len(details)

C6_Witness ==
  /\ Returned
  /\ Truthy(name) /\ details = <<>>
  /\ item = <<LiOpen>> \o title_html \o <<LiClose>>

Occurs(s, p) ==
  /\ p + Len(PLACEHOLDER) - 1 <= Len(s)
  /\ SubSeq(s, p, p + Len(PLACEHOLDER) - 1) = PLACEHOLDER

(* position of the first occurrence of the token in s, 0 when there is none *)
FirstOcc(s) ==
  IF \E p \in 1..Len(s) : Occurs(s, p)
  THEN CHOOSE p \in 1..Len(s) :
         Occurs(s, p) /\ \A q \in 1..(p - 1) : ~Occurs(s, q)
  ELSE 0

AfterFirstOcc(s) == SubSeq(s, FirstOcc(s) + Len(PLACEHOLDER), Len(s))

FirstOccReplaced(s, new) ==
  IF FirstOcc(s) = 0 THEN s
  ELSE SubSeq(s, 1, FirstOcc(s) - 1) \o new \o AfterFirstOcc(s)

RECURSIVE EveryOccReplaced(_, _)
EveryOccReplaced(s, new) ==
  IF FirstOcc(s) = 0 THEN s
  ELSE SubSeq(s, 1, FirstOcc(s) - 1) \o new
       \o EveryOccReplaced(AfterFirstOcc(s), new)

(* C7 as stated: the final page is the template with the first occurrence  *)
(* of the token replaced by the fragment output and everything else, any   *)
(* later occurrence included, unchanged.                                   *)
C7_OnlyFirstReplaced ==
  pc = "done" => final_html = FirstOccReplaced(template_html, cards_html)

(* C7 amended: the final page is the template with every occurrence of    *)
(* the token (found left to right, the search resuming after each replaced *)
(* occurrence) replaced by the fragment output and every other character   *)
(* unchanged; without any occurrence the final page equals the template.   *)
C7_EveryOccurrenceReplaced ==
  pc = "done" =>
    /\ final_html = EveryOccReplaced(template_html, cards_html)
    /\ FirstOcc(template_html) = 0 => final_html = template_html

C7_Witness ==
  /\ pc = "done"
  /\ FirstOcc(template_html) # 0
  /\ FirstOcc(AfterFirstOcc(template_html)) # 0
  /\ cards_html # <<>>
  /\ final_html = cards_html \o cards_html

(* the first alias, in alias order, that is a literal key of d; 0 if none *)
FirstLiteral(d, keys) ==
  IF \E n \in 1..Len(keys) : HasKey(d, keys[n])
  THEN CHOOSE n \in 1..Len(keys) :
         HasKey(d, keys[n]) /\ \A m \in 1..(n - 1) : ~HasKey(d, keys[m])
  ELSE 0

LookupOrders == AliasLists \cup {<<K_location, K_locations>>,
                                 <<upper(K_name), K_name>>}

(* C8: when some alias is a literal key of the mapping, get_ci returns the *)
(* value stored under the first such alias, whatever the value, for the    *)
(* lookups of serialize_animal and for every alias order; with             *)
(* locations = "" and a location key the location lookup returns "".       *)
C8_FirstLiteralKeyWins ==
  Returned =>
    /\ HasKey(animal.v, K_name) => name = Lookup(animal.v, K_name)
    /\ HasKey(animal.v, K_locations)
         => locations = Lookup(animal.v, K_locations)
    /\ (~HasKey(animal.v, K_locations) /\ HasKey(animal.v, K_location))
         => locations = Lookup(animal.v, K_location)
    /\ \A al \in LookupOrders :
         FirstLiteral(animal.v, al) # 0 =>
           get_ci(animal.v, al)
             = Lookup(animal.v, al[FirstLiteral(animal.v, al)])

C8_Witness ==
  /\ Returned
  /\ HasKey(animal.v, K_locations) /\ HasKey(animal.v, K_location)
  /\ Lookup(animal.v, K_locations) = V_empty
  /\ Truthy(Lookup(animal.v, K_location))
  /\ locations = V_empty
  /\ FactsOf(LocLabel) = <<>>

(* C9: a list-valued location lookup shows its first element and nothing   *)
(* of the later ones, a string-valued one shows the trimmed string; there  *)
(* is at most one Location fact, after the Diet fact and before the Type   *)
(* fact.                                                                   *)
C9_FirstLocationOnly ==
  Returned =>
    /\ Len(FactsOf(LocLabel)) <= 1
    /\ (IsList(locations) /\ Len(locations.v) > 0 /\ Truthy(locations.v[1]))
         => FactsOf(LocLabel)
              = << <<LocLabel>> \o escape(str(locations.v[1])) \o <<Br>> >>
    /\ (IsStr(locations) /\ strip(locations.v) # <<>>)
         => FactsOf(LocLabel)
              = << <<LocLabel>> \o escape(strip(locations.v)) \o <<Br>> >>
    /\ \A i, j \in 1..Len(details) :
         details[i][1] = LocLabel =>
           /\ details[j][1] = DietLabel => j < i
           /\ details[j][1] = TypeLabel => j > i

C9_Witness ==
  /\ Returned
  /\ IsList(locations) /\ Len(locations.v) >= 2
  /\ locations.v[1] # locations.v[2]
  /\ Len(details) = 3
  /\ details[2][1] = LocLabel

(* C10 as stated: the title line holds the name escaped and upper-cased.   *)
C10_TitleUpperCased ==
  (Returned /\ Truthy(name)) =>
    title_html = <<DivOpen>> \o escape(upper(str(name))) \o <<DivClose>>

(* C10 amended: when the name lookup returns a non-empty value, the title  *)
(* line, placed first in the container, holds the name escaped and in its  *)
(* original letter case.                                                   *)
C10_TitleEscaped ==
  (Returned /\ Truthy(name)) =>
    /\ title_html = <<DivOpen>> \o escape(str(name)) \o <<DivClose>>
    /\ SubSeq(item, 2, 1 + Len(title_html)) = title_html

C10_Witness ==
  /\ Returned
  /\ name = V_tag
  /\ upper(str(name)) # str(name)
  /\ HasToken(item, "f") /\ ~HasToken(item, "F")

====
